---- MODULE Spec2Model ----
(***************************************************************************)
(* Model of simple-config's Config class (src/src/config.ts): a default    *)
(* configuration object is reconciled with a JSON file on disk.            *)
(*                                                                         *)
(* A JavaScript value is a function from key paths to tags.  The tag at    *)
(* the empty path is the kind of the value itself: "OBJ" for a mapping,    *)
(* "ARR" for an array, "undefined", or the scalar it is ("null", "false",  *)
(* "0", "1", "2", ...).  A mapping has one entry per path below it.        *)
(***************************************************************************)
EXTENDS Integers, Sequences, FiniteSets, TLC

VARIABLES
  defaultConfig,  \* the defaultConfig value the caller constructs instances from
  keyOrder,       \* property enumeration order of the caller's objects
  file,           \* the storage location configPath
  config,         \* this.config
  initialized,    \* this.initialized
  handles,        \* structures getConfig has returned, as the caller holds them
  last,           \* the latest call: operation, outcome, storage calls, return value
  runs,           \* history: one record per init that ran to completion
  instances,      \* number of instances constructed so far
  mutations       \* number of caller mutations so far

vars == <<defaultConfig, keyOrder, file, config, initialized, handles, last,
          runs, instances, mutations>>

----------------------------------------------------------------------------
(* Bounds *)

MaxInstances == 2
MaxHandles == 2
MaxMutations == 1

TopKeys == {"a", "b"}
SubKey == "c"
DefaultScalars == {"null", "1"}
PersistedScalars == {"null", "0", "2"}
CallerScalars == {"9"}

----------------------------------------------------------------------------
(* JavaScript values *)

Undefined == [p \in {<<>>} |-> "undefined"]
Scalar(s) == [p \in {<<>>} |-> s]
EmptyObject == [p \in {<<>>} |-> "OBJ"]

Tag(v) == v[<<>>]

IsPrefix(p, r) == Len(p) <= Len(r) /\ SubSeq(r, 1, Len(p)) = p

DropPrefix(p, r) == SubSeq(r, Len(p) + 1, Len(r))

\* the value stored at path p of v (p is a path of v)
Sub(v, p) ==
  [q \in {DropPrefix(p, r) : r \in {r \in DOMAIN v : IsPrefix(p, r)}} |-> v[p \o q]]

\* v with the value at path p replaced by w
SetAt(v, p, w) ==
  [r \in {r \in DOMAIN v : ~IsPrefix(p, r)} \cup {p \o q : q \in DOMAIN w} |->
     IF IsPrefix(p, r) THEN w[DropPrefix(p, r)] ELSE v[r]]

\* Array.isArray(thing)
IsArray(thing) == Tag(thing) = "ARR"

\* typeof thing === 'object' (true of null as well)
TypeofObject(thing) == Tag(thing) \in {"OBJ", "ARR", "null"}

\* !thing
Falsy(thing) == Tag(thing) \in {"undefined", "null", "false", "0", ""}

\* values a property can be created on
HoldsProps(thing) == Tag(thing) \in {"OBJ", "ARR"}

\* thing[key], for a thing that is not null or undefined
Index(thing, key) ==
  IF HoldsProps(thing) /\ <<key>> \in DOMAIN thing THEN Sub(thing, <<key>>) ELSE Undefined

\* the keys `for (let key in thing)` visits, in order
KeysInOrder(thing, order) == SelectSeq(order, LAMBDA k : <<k>> \in DOMAIN thing)

----------------------------------------------------------------------------
(* Path accessor *)

RECURSIVE GetValueFromPath(_, _)
GetValueFromPath(thing, path) ==
  IF path = <<>> THEN thing
  ELSE IF Falsy(thing) THEN Undefined
  ELSE GetValueFromPath(Index(thing, Head(path)), Tail(path))

\* Returns the thing as mutated, and whether a TypeError was thrown (strict
\* mode: creating a property on a primitive throws).
RECURSIVE SetValueFromPath(_, _, _)
SetValueFromPath(thing, path, setThing) ==
  IF path = <<>> THEN [thrown |-> FALSE, thing |-> thing]
  ELSE IF ~HoldsProps(thing) THEN [thrown |-> TRUE, thing |-> thing]
  ELSE LET next == Head(path)
           rest == Tail(path)
       IN IF rest = <<>>
          THEN [thrown |-> FALSE, thing |-> SetAt(thing, <<next>>, setThing)]
          ELSE LET vivified == IF Falsy(Index(thing, next))
                               THEN SetAt(thing, <<next>>, EmptyObject)
                               ELSE thing
                   inner == SetValueFromPath(Index(vivified, next), rest, setThing)
               IN [thrown |-> inner.thrown,
                   thing |-> SetAt(vivified, <<next>>, inner.thing)]

----------------------------------------------------------------------------
(* Reconciler *)

\* as ReconcileLeaf, but the found branch hands over propsValues where
\* propValueThing is meant
ReconcileLeafWholeProps(cfg, propsValues, path, thing) ==
  LET propValueThing == GetValueFromPath(propsValues, path)
  IN IF propValueThing = Undefined
     THEN LET r == SetValueFromPath(propsValues, path, thing)
          IN [config |-> cfg, props |-> r.thing,
              err |-> IF r.thrown THEN "TypeError" ELSE "none"]
     ELSE LET r == SetValueFromPath(cfg, path, propsValues)
          IN [config |-> r.thing, props |-> propsValues,
              err |-> IF r.thrown THEN "TypeError" ELSE "none"]

\* the else branch of loadConfig: thing is a leaf of this.config at path
ReconcileLeaf(cfg, propsValues, path, thing) ==
  LET propValueThing == GetValueFromPath(propsValues, path)
  IN IF propValueThing = Undefined
     THEN LET r == SetValueFromPath(propsValues, path, thing)
          IN [config |-> cfg, props |-> r.thing,
              err |-> IF r.thrown THEN "TypeError" ELSE "none"]
     ELSE LET r == SetValueFromPath(cfg, path, propValueThing)
          IN [config |-> r.thing, props |-> propsValues,
              err |-> IF r.thrown THEN "TypeError" ELSE "none"]

RECURSIVE LoadConfig(_, _, _, _)
RECURSIVE LoadKeys(_, _, _, _, _)

\* loadConfig: returns this.config and propsValues as they are when the call
\* returns or throws, and the error thrown ("none" when it returns)
LoadConfig(cfg, propsValues, path, order) ==
  LET thing == GetValueFromPath(cfg, path)
  IN IF IsArray(thing)
     THEN [config |-> cfg, props |-> propsValues, err |-> "ArraysNotSupported"]
     ELSE IF TypeofObject(thing)
     THEN LoadKeys(cfg, propsValues, path, KeysInOrder(thing, order), order)
     ELSE ReconcileLeaf(cfg, propsValues, path, thing)

\* the for-in loop of loadConfig over the remaining keys
LoadKeys(cfg, propsValues, path, keys, order) ==
  IF keys = <<>> THEN [config |-> cfg, props |-> propsValues, err |-> "none"]
  ELSE LET r == LoadConfig(cfg, propsValues, path \o <<Head(keys)>>, order)
       IN IF r.err # "none" THEN r
          ELSE LoadKeys(r.config, r.props, path, Tail(keys), order)

----------------------------------------------------------------------------
(* Storage and JSON text *)

\* a text is empty, or a JSON document; pretty tells whether it is laid out
\* as JSON.stringify(value, null, 2) lays it out
EmptyText == [kind |-> "empty", pretty |-> FALSE, doc |-> EmptyObject]
JSONText(doc, pretty) == [kind |-> "json", pretty |-> pretty, doc |-> doc]

NoFile == [exists |-> FALSE, text |-> EmptyText]
FileWith(text) == [exists |-> TRUE, text |-> text]

\* as JSONstringify, but properties holding null are left out as well
JSONstringifyDroppingNull(value) ==
  JSONText([p \in {p \in DOMAIN value :
                     \A n \in 1..Len(p) : value[SubSeq(p, 1, n)] \notin {"undefined", "null"}}
              |-> value[p]], TRUE)

\* JSON.stringify(value, null, 2): properties holding undefined are left out
JSONstringify(value) ==
  JSONText([p \in {p \in DOMAIN value :
                     \A n \in 1..Len(p) : value[SubSeq(p, 1, n)] # "undefined"}
              |-> value[p]], TRUE)

\* JSON.parse(text || '{}')
JSONparseOrEmpty(text) == IF text.kind = "empty" THEN EmptyObject ELSE text.doc

----------------------------------------------------------------------------
(* The instance *)

\* as InitGuard, but the flag is never honoured
InitGuardNever(inited) == FALSE

\* line 26: if (this.initialized) return
InitGuard(inited) == inited

\* init(): the instance and the storage as the call leaves them
DoInit(cfg, inited, f, order) ==
  IF InitGuard(inited)
  THEN [config |-> cfg, initialized |-> inited, file |-> f, io |-> <<>>,
        outcome |-> "ok", ran |-> FALSE]
  ELSE LET f1 == IF f.exists THEN f ELSE FileWith(EmptyText)
           io1 == IF f.exists THEN <<"existsSync">>
                              ELSE <<"existsSync", "writeFileSync('')">>
           props == JSONparseOrEmpty(f1.text)
           r == LoadConfig(cfg, props, <<>>, order)
       IN IF r.err # "none"
          THEN [config |-> r.config, initialized |-> FALSE, file |-> f1,
                io |-> io1 \o <<"readFileSync">>, outcome |-> r.err, ran |-> FALSE]
          ELSE [config |-> r.config, initialized |-> TRUE,
                file |-> FileWith(JSONstringify(r.props)),
                io |-> io1 \o <<"readFileSync", "writeFileSync(props)">>,
                outcome |-> "ok", ran |-> TRUE]

\* a returned structure: its value, and the paths of its mappings that are
\* the very objects this.config holds at those paths
ObjectPaths(v) == {p \in DOMAIN v : v[p] \in {"OBJ", "ARR"}}

\* as StructuredClone, but this.config itself is handed out
ReturnSameObject(v) == [tree |-> v, shared |-> ObjectPaths(v)]

\* structuredClone(this.config): no object is shared with this.config
StructuredClone(v) == [tree |-> v, shared |-> {}]

RunRecord(before, r) == [P |-> before, M |-> r.config, S |-> r.file]

Record(r) == IF r.ran THEN Append(runs, RunRecord(file, r)) ELSE runs

InitCall ==
  LET r == DoInit(config, initialized, file, keyOrder)
  IN /\ config' = r.config
     /\ initialized' = r.initialized
     /\ file' = r.file
     /\ last' = [op |-> "init", outcome |-> r.outcome, io |-> r.io,
                 before |-> file, ret |-> Undefined]
     /\ runs' = Record(r)
     /\ UNCHANGED <<defaultConfig, keyOrder, handles, instances, mutations>>

GetConfig ==
  /\ Len(handles) < MaxHandles
  /\ LET r == DoInit(config, initialized, file, keyOrder)
         h == StructuredClone(r.config)
     IN /\ config' = r.config
        /\ initialized' = r.initialized
        /\ file' = r.file
        /\ runs' = Record(r)
        /\ IF r.outcome = "ok"
           THEN /\ handles' = Append(handles, h)
                /\ last' = [op |-> "getConfig", outcome |-> "ok", io |-> r.io,
                            before |-> file, ret |-> h.tree]
           ELSE /\ handles' = handles
                /\ last' = [op |-> "getConfig", outcome |-> r.outcome, io |-> r.io,
                            before |-> file, ret |-> Undefined]
  /\ UNCHANGED <<defaultConfig, keyOrder, instances, mutations>>

\* new Config(defaultConfig, ...) on the same storage location, from the
\* same default value
NewInstance ==
  /\ instances < MaxInstances
  /\ instances' = instances + 1
  /\ config' = defaultConfig
  /\ initialized' = FALSE
  /\ handles' = <<>>
  /\ last' = [op |-> "new", outcome |-> "ok", io |-> <<>>, before |-> file,
              ret |-> Undefined]
  /\ UNCHANGED <<defaultConfig, keyOrder, file, runs, mutations>>

\* the caller assigns a scalar to a property, at any depth, of a structure
\* getConfig returned; objects shared with this.config change with it
Front(p) == SubSeq(p, 1, Len(p) - 1)

Mutated(h, p, s) ==
  [tree |-> SetAt(h.tree, p, Scalar(s)), shared |-> {q \in h.shared : ~IsPrefix(p, q)}]

MutateReturned ==
  /\ mutations < MaxMutations
  /\ \E i \in 1..Len(handles), s \in CallerScalars :
       \E p \in DOMAIN handles[i].tree \ {<<>>} :
         LET leaks == Front(p) \in handles[i].shared
         IN /\ handles' = [j \in 1..Len(handles) |->
                             IF j = i \/ (leaks /\ Front(p) \in handles[j].shared)
                             THEN Mutated(handles[j], p, s) ELSE handles[j]]
            /\ config' = IF leaks THEN SetAt(config, p, Scalar(s)) ELSE config
  /\ mutations' = mutations + 1
  /\ last' = [op |-> "mutate", outcome |-> "ok", io |-> <<>>, before |-> file,
              ret |-> Undefined]
  /\ UNCHANGED <<defaultConfig, keyOrder, file, initialized, runs, instances>>

----------------------------------------------------------------------------
(* Inputs *)

\* what a top-level key holds: nothing, a scalar, an array, or a mapping
\* whose one key holds nothing, a scalar or an array
Shapes(scalars, arrays) ==
  LET leaf == {"absent"} \cup scalars \cup arrays
  IN {<<k, "absent">> : k \in leaf} \cup {<<"OBJ", s>> : s \in leaf}

MkTree(f) ==
  [p \in {<<>>} \cup {<<k>> : k \in {k \in TopKeys : f[k][1] # "absent"}}
         \cup {<<k, SubKey>> : k \in {k \in TopKeys : f[k][1] = "OBJ" /\ f[k][2] # "absent"}}
     |-> IF Len(p) = 0 THEN "OBJ"
         ELSE IF Len(p) = 1 THEN f[p[1]][1] ELSE f[p[1]][2]]

Structures(scalars, arrays) == {MkTree(f) : f \in [TopKeys -> Shapes(scalars, arrays)]}

Defaults == Structures(DefaultScalars, {"ARR"})
Persisted == Structures(PersistedScalars, {})

Files == {NoFile, FileWith(EmptyText)}
         \cup {FileWith(JSONText(P, pretty)) : P \in Persisted, pretty \in BOOLEAN}

KeyOrders == {<<"a", "b", SubKey>>, <<"b", "a", SubKey>>}

Fresh(D, order, f) ==
  /\ defaultConfig = D
  /\ keyOrder = order
  /\ file = f
  /\ config = D
  /\ initialized = FALSE
  /\ handles = <<>>
  /\ last = [op |-> "new", outcome |-> "ok", io |-> <<>>, before |-> f,
             ret |-> Undefined]
  /\ runs = <<>>
  /\ instances = 1
  /\ mutations = 0

Init == \E D \in Defaults, order \in KeyOrders, f \in Files : Fresh(D, order, f)

Next == InitCall \/ GetConfig \/ NewInstance

Spec == Init /\ [][Next]_vars

----------------------------------------------------------------------------
(* One instance over its lifetime: the user edits the file between calls,  *)
(* the caller mutates what getConfig returned.                             *)

ArrayFree(v) == \A p \in DOMAIN v : v[p] # "ARR"

LifeDefaults ==
  {D \in Defaults : /\ ArrayFree(D)
                    /\ <<"a", SubKey>> \in DOMAIN D
                    /\ <<"b", SubKey>> \notin DOMAIN D}
LifePersisted == {P \in Persisted : <<"b">> \notin DOMAIN P}
LifeFiles == {NoFile} \cup {FileWith(JSONText(P, TRUE)) : P \in LifePersisted}

\* the user rewrites or removes the configuration file
ExternalEdit ==
  /\ \E f \in LifeFiles \ {file} : file' = f
  /\ last' = [op |-> "edit", outcome |-> "ok", io |-> <<>>, before |-> file,
              ret |-> Undefined]
  /\ UNCHANGED <<defaultConfig, keyOrder, config, initialized, handles, runs,
                 instances, mutations>>

InitLife == \E D \in LifeDefaults, order \in KeyOrders, f \in LifeFiles : Fresh(D, order, f)

NextLife == InitCall \/ GetConfig \/ MutateReturned \/ ExternalEdit

SpecLife == InitLife /\ [][NextLife]_vars

----------------------------------------------------------------------------
(* Vocabulary of the properties *)

KeyPaths(v) == DOMAIN v \ {<<>>}

\* the paths at which v holds a string, number, boolean or null
LeafPaths(v) == {p \in KeyPaths(v) : v[p] \notin {"OBJ", "ARR"}}

Calls == {"init", "getConfig"}

\* the init of the current instance that ran to completion
ThisRun == runs[Len(runs)]
LoadedOf(run) == JSONparseOrEmpty(run.P.text)
WrittenOf(run) == run.S.text.doc

\* getConfig has just returned a structure
GotConfig == last.op = "getConfig" /\ last.outcome = "ok" /\ initialized

\* init has just thrown
InitFailed == last.op \in Calls /\ last.outcome # "ok"

\* the latest call is the one in which init ran to completion
InitJustRan == last.op \in Calls /\ last.outcome = "ok" /\ last.io # <<>>

\* p is a path of v and below
HoldsSame(v, w, p) == p \in DOMAIN v /\ p \in DOMAIN w /\ Sub(v, p) = Sub(w, p)

\* P holds a mapping with keys where D holds a leaf
MappingAtLeaf(D, P) ==
  \E p \in LeafPaths(D) : \E q \in DOMAIN P : IsPrefix(p, q) /\ q # p

----------------------------------------------------------------------------
(* C1  Persisted wins: after a successful init, at every path where the    *)
(* default structure holds a leaf and the persisted structure holds a      *)
(* value, the structure getConfig returns holds the persisted value.       *)
C1_PersistedWins ==
  GotConfig =>
    \A p \in LeafPaths(defaultConfig) \cap DOMAIN LoadedOf(ThisRun) :
      HoldsSame(last.ret, LoadedOf(ThisRun), p)

(* C2  Backfill: after a successful init, at every path where the default  *)
(* structure holds a leaf and the persisted structure holds nothing, both  *)
(* the structure getConfig returns and the content written to storage hold *)
(* the default value.                                                      *)
C2_Backfill ==
  GotConfig =>
    \A p \in LeafPaths(defaultConfig) \ DOMAIN LoadedOf(ThisRun) :
      /\ HoldsSame(last.ret, defaultConfig, p)
      /\ HoldsSame(WrittenOf(ThisRun), defaultConfig, p)

(* C3 as stated  Shape preservation: the structure getConfig returns has   *)
(* exactly the key paths of the default structure, whatever the persisted  *)
(* structure holds.                                                        *)
C3_ShapePreservedAlways ==
  GotConfig => KeyPaths(last.ret) = KeyPaths(defaultConfig)

(* C3 amended  Shape preservation: the structure getConfig returns has     *)
(* exactly the key paths of the default structure, provided the persisted  *)
(* structure holds no non-empty mapping where the default holds a leaf.    *)
C3_ShapePreserved ==
  (GotConfig /\ ~MappingAtLeaf(defaultConfig, LoadedOf(ThisRun)))
    => KeyPaths(last.ret) = KeyPaths(defaultConfig)

C3_Witness ==
  /\ GotConfig
  /\ ~MappingAtLeaf(defaultConfig, LoadedOf(ThisRun))
  /\ last.ret # defaultConfig
  /\ WrittenOf(ThisRun) # LoadedOf(ThisRun)
  /\ \E p \in KeyPaths(defaultConfig) \cap DOMAIN LoadedOf(ThisRun) :
       defaultConfig[p] = "OBJ" /\ LoadedOf(ThisRun)[p] # "OBJ"

(* C4  A default structure containing an array makes init fail with the    *)
(* arrays error and leaves the storage location as it was before the call, *)
(* with no write at all.                                                   *)
C4_ArrayFailsWithoutWrite ==
  (last.op \in Calls /\ ~ArrayFree(defaultConfig)) =>
    /\ last.outcome = "ArraysNotSupported"
    /\ file = last.before
    /\ \A n \in 1..Len(last.io) : last.io[n] \notin {"writeFileSync('')", "writeFileSync(props)"}

(* C5  Idempotence across runs: a second instance built from the same      *)
(* default, initialized against the storage content the first one wrote,   *)
(* computes the same merged structure and writes the same content.         *)
C5_Idempotent ==
  \A n \in 1..(Len(runs) - 1) :
    runs[n + 1].P = runs[n].S => (runs[n + 1].M = runs[n].M /\ runs[n + 1].S = runs[n].S)

C5_Witness ==
  /\ Len(runs) >= 2
  /\ runs[2].P = runs[1].S
  /\ runs[1].S # runs[1].P
  /\ WrittenOf(runs[1]) # LoadedOf(runs[1])
  /\ runs[1].M # defaultConfig

(* C6  Reconciliation only adds: every path that held a value in the       *)
(* persisted structure holds the same value in the content written, and    *)
(* every path added lies on a leaf path of the default that was absent.    *)
C6_OnlyAdds ==
  \A n \in 1..Len(runs) :
    LET P == LoadedOf(runs[n])
        S == WrittenOf(runs[n])
    IN /\ \A p \in KeyPaths(P) : p \in DOMAIN S /\ S[p] = P[p]
       /\ \A p \in KeyPaths(S) \ KeyPaths(P) :
            \E q \in LeafPaths(defaultConfig) \ DOMAIN P : IsPrefix(p, q)

(* C7  Initialization happens at most once per instance: once initialized, *)
(* a call to init or getConfig makes no storage call and leaves the        *)
(* in-memory structure and the storage as they are.                        *)
C7_InitOnce ==
  [][(initialized /\ last'.op \in Calls) =>
       (last'.io = <<>> /\ config' = config /\ file' = file /\ initialized')]_vars

C7_Witness ==
  /\ initialized
  /\ last.op \in Calls
  /\ last.io = <<>>
  /\ file # ThisRun.S
  /\ config = ThisRun.M

(* C8  Every getConfig call returns the merged structure init computed,    *)
(* whatever the caller did to the structures returned before.              *)
C8_IndependentCopy ==
  GotConfig => last.ret = ThisRun.M

C8_Witness ==
  /\ GotConfig
  /\ Len(handles) >= 2
  /\ mutations >= 1
  /\ handles[1].tree # ThisRun.M
  /\ last.ret = ThisRun.M

(* C9  No partial success: when init ends in an error the instance is not  *)
(* initialized and its in-memory structure is the default structure, with  *)
(* no value taken over from the persisted structure.                       *)
C9_NoPartialState ==
  InitFailed => (~initialized /\ config = defaultConfig)

(* C10  init writes the persisted structure back only if reconciliation    *)
(* added to it: when every leaf path of the default already holds a value  *)
(* in the persisted structure, init does not write it.                     *)
C10_WriteOnlyIfChanged ==
  (InitJustRan /\ LeafPaths(defaultConfig) \subseteq DOMAIN LoadedOf(ThisRun))
    => \A n \in 1..Len(last.io) : last.io[n] # "writeFileSync(props)"

====
